---- MODULE Spec2Model ----
(***************************************************************************)
(* Model of the dBet backend: the resolution relay (POST /resolve-market,  *)
(* GET /get-resolution/:marketAddress), the Chainlink Functions script     *)
(* that pulls a resolution from the relay, and the dynamic metadata        *)
(* endpoint (GET /metadata/:marketAddress/:tokenId).                       *)
(***************************************************************************)
EXTENDS Integers, Sequences, FiniteSets, TLC

\* ------------------------------------------------------------------------
\* Bounds of the model
\* ------------------------------------------------------------------------

\* Largest winning option index a resolver sends.
MaxIndex == 1

\* Largest pooled stake of one option.
MaxStake == 5

\* ------------------------------------------------------------------------
\* JavaScript values
\* ------------------------------------------------------------------------
\* A value is a record [type, n, half, s, props]: a number is n (+ 1/2 when
\* half), a string is the sequence s of its characters, an object of a JSON
\* body is the function props from its own keys to their values. The type
\* "Object.prototype" tells the built-in prototype apart from those objects.

\* No own property.
NoProperties == <<>>

Undefined == [type |-> "undefined", n |-> 0, half |-> FALSE, s |-> <<>>,
              props |-> NoProperties]

Null == [type |-> "null", n |-> 0, half |-> FALSE, s |-> <<>>,
         props |-> NoProperties]

Obj(props) == [type |-> "object", n |-> 0, half |-> FALSE, s |-> <<>>,
               props |-> props]

ObjectPrototype == [type |-> "Object.prototype", n |-> 0, half |-> FALSE,
                    s |-> <<>>, props |-> NoProperties]

FunctionValue == [type |-> "function", n |-> 0, half |-> FALSE, s |-> <<>>,
                  props |-> NoProperties]

Num(k) == [type |-> "number", n |-> k, half |-> FALSE, s |-> <<>>,
           props |-> NoProperties]

NumAndHalf(k) == [type |-> "number", n |-> k, half |-> TRUE, s |-> <<>>,
                  props |-> NoProperties]

Str(chars) == [type |-> "string", n |-> 0, half |-> FALSE, s |-> chars,
               props |-> NoProperties]

\* ToBoolean(v) is false: the operand of `!v` that makes it true.
Falsy(v) ==
    \/ v.type \in {"undefined", "null"}
    \/ v.type = "number" /\ v.n = 0 /\ ~v.half
    \/ v.type = "string" /\ v.s = <<>>

\* a != b, for the operands the middleware compares: strings, undefined and
\* null (null == undefined).
LooseNotEqual(a, b) ==
    IF a.type \in {"undefined", "null"} \/ b.type \in {"undefined", "null"}
    THEN ~(a.type \in {"undefined", "null"} /\ b.type \in {"undefined", "null"})
    ELSE a # b

\* A non-negative integer: what the spec calls a valid winning option index.
IsUint(v) == v.type = "number" /\ ~v.half /\ v.n >= 0

\* The capital letters of ASCII and of Latin-1, and their lower-case letters.
UpperChars == <<"A", "B", "C", "D", "E", "F", "G", "H", "I", "J", "K", "L", "M",
                "N", "O", "P", "Q", "R", "S", "T", "U", "V", "W", "X", "Y", "Z",
                "À", "Á", "Â", "Ã", "Ä", "Å", "Æ", "Ç", "È", "É", "Ê", "Ë", "Ì",
                "Í", "Î", "Ï", "Ð", "Ñ", "Ò", "Ó", "Ô", "Õ", "Ö", "Ø", "Ù", "Ú",
                "Û", "Ü", "Ý", "Þ">>

LowerChars == <<"a", "b", "c", "d", "e", "f", "g", "h", "i", "j", "k", "l", "m",
                "n", "o", "p", "q", "r", "s", "t", "u", "v", "w", "x", "y", "z",
                "à", "á", "â", "ã", "ä", "å", "æ", "ç", "è", "é", "ê", "ë", "ì",
                "í", "î", "ï", "ð", "ñ", "ò", "ó", "ô", "õ", "ö", "ø", "ù", "ú",
                "û", "ü", "ý", "þ">>

\* The lower-case letter of each upper-case letter.
LowerOf == [c \in {UpperChars[i] : i \in 1..Len(UpperChars)} |->
               LowerChars[CHOOSE i \in 1..Len(UpperChars) : UpperChars[i] = c]]

LowerChar(c) == IF c \in DOMAIN LowerOf THEN LowerOf[c] ELSE c

\* String.prototype.toLowerCase
toLowerCase(chars) == [i \in 1..Len(chars) |-> LowerChar(chars[i])]

\* ------------------------------------------------------------------------
\* The plain object `resolutionStore = {}`
\* ------------------------------------------------------------------------
\* The object is the record [own, proto]: the function from its own keys to
\* their values, and its prototype (Object.prototype, an object of a JSON
\* body whose own prototype is Object.prototype, or null).

ProtoKey == <<"_", "_", "p", "r", "o", "t", "o", "_", "_">>

ConstructorKey == <<"c", "o", "n", "s", "t", "r", "u", "c", "t", "o", "r">>

ToStringKey == <<"t", "o", "S", "t", "r", "i", "n", "g">>

ValueOfKey == <<"v", "a", "l", "u", "e", "O", "f">>

HasOwnPropertyKey == <<"h", "a", "s", "O", "w", "n", "P", "r", "o", "p", "e", "r", "t", "y">>

\* The function-valued properties of Object.prototype.
ObjectPrototypeMethods ==
    {ConstructorKey, ToStringKey, ValueOfKey, HasOwnPropertyKey,
     <<"i", "s", "P", "r", "o", "t", "o", "t", "y", "p", "e", "O", "f">>,
     <<"p", "r", "o", "p", "e", "r", "t", "y", "I", "s", "E", "n", "u", "m", "e", "r", "a", "b", "l", "e">>,
     <<"t", "o", "L", "o", "c", "a", "l", "e", "S", "t", "r", "i", "n", "g">>,
     <<"_", "_", "d", "e", "f", "i", "n", "e", "G", "e", "t", "t", "e", "r", "_", "_">>,
     <<"_", "_", "d", "e", "f", "i", "n", "e", "S", "e", "t", "t", "e", "r", "_", "_">>,
     <<"_", "_", "l", "o", "o", "k", "u", "p", "G", "e", "t", "t", "e", "r", "_", "_">>,
     <<"_", "_", "l", "o", "o", "k", "u", "p", "S", "e", "t", "t", "e", "r", "_", "_">>}

\* The object has, own or on its prototype chain before Object.prototype, a
\* data property under key.
HasDataProperty(obj, key) ==
    \/ key \in DOMAIN obj.own
    \/ obj.proto.type = "object" /\ key \in DOMAIN obj.proto.props

\* obj[key]: the own property, then the prototype chain; the __proto__
\* accessor of Object.prototype answers the object's prototype.
PropertyGet(obj, key) ==
    IF key \in DOMAIN obj.own THEN obj.own[key]
    ELSE IF obj.proto.type = "null" THEN Undefined
    ELSE IF key \in DOMAIN obj.proto.props THEN obj.proto.props[key]
    ELSE IF key = ProtoKey THEN obj.proto
    ELSE IF key \in ObjectPrototypeMethods THEN FunctionValue
    ELSE Undefined

\* obj[key] = value. Under the key __proto__ an object that still inherits
\* the accessor of Object.prototype runs its setter: an object or null
\* replaces the prototype, any other value is ignored, and no own property
\* is created. Everywhere else the own property is set.
PropertySet(obj, key, value) ==
    IF key = ProtoKey /\ obj.proto.type # "null" /\ ~HasDataProperty(obj, key)
    THEN IF value.type \in {"object", "null", "Object.prototype"}
         THEN [obj EXCEPT !.proto = value]
         ELSE obj
    ELSE [obj EXCEPT !.own = [k \in (DOMAIN obj.own) \cup {key} |->
                                  IF k = key THEN value ELSE obj.own[k]]]

\* What JSON.stringify keeps of a property value: undefined and functions
\* are dropped from the document, Object.prototype is written as {}.
JSONValue(v) ==
    IF v.type \in {"undefined", "function"} THEN Undefined
    ELSE IF v.type = "Object.prototype" THEN Obj(NoProperties)
    ELSE v

\* ------------------------------------------------------------------------
\* Inputs
\* ------------------------------------------------------------------------

Addr0xAb == <<"0", "x", "A", "b">>

Addr0xab == <<"0", "x", "a", "b">>

SecretChars == <<"k", "e", "y">>

WrongChars == <<"b", "a", "d">>

\* Path segments of GET /get-resolution/:marketAddress (never empty).
PathAddresses == {Addr0xAb, Addr0xab, ConstructorKey, ProtoKey}

\* body.marketAddress: absent, the empty string, a non-string, an address in
\* either letter case, or the key of the prototype accessor. Any other string
\* is stored as an own property, as the addresses are.
BodyAddresses ==
    {Undefined, Str(<<>>), Num(7), Str(Addr0xAb), Str(Addr0xab), Str(ProtoKey)}

\* body.winningOptionIndex: absent, null, a negative integer, a non-integer,
\* an object, or an index 0..MaxIndex.
BodyIndexes ==
    {Undefined, Null, Num(-1), NumAndHalf(0), Obj([k \in {Addr0xab} |-> Num(1)])}
        \cup {Num(i) : i \in 0..MaxIndex}

\* req.headers['x-api-key']: missing, the secret, another string.
ApiKeyHeaders == {Undefined, Str(SecretChars), Str(WrongChars)}

\* process.env.API_KEY: unset, or the secret.
ApiKeyConfigs == {Undefined, Str(SecretChars)}

\* args[0] of the Chainlink Functions script: missing, empty, or an address.
OracleArgs == {Undefined, Str(<<>>)} \cup {Str(a) : a \in PathAddresses}

VARIABLES
    API_KEY,          \* process.env.API_KEY
    resolutionStore,  \* the in-memory store
    lastStored,       \* history: normalized key -> index of the latest 200 POST
    recording,        \* whether relay exchanges are recorded in req and res
    req,              \* the last recorded relay request
    res,              \* its response
    oracle,           \* the Chainlink Functions script run
    chain,            \* the market and position contracts, as the RPC node reads them
    meta              \* the GET /metadata request in progress and its response

relayVars == <<API_KEY, resolutionStore, lastStored, recording, req, res, oracle>>

metaVars == <<chain, meta>>

vars == <<relayVars, metaVars>>

NoRequest == [route |-> "none", apiKey |-> Undefined, parsed |-> TRUE,
              marketAddress |-> Undefined, winningOptionIndex |-> Undefined]

NoResponse == [status |-> 0, winningOptionIndex |-> Undefined]

OracleIdle == [pc |-> "idle", arg |-> Undefined, held |-> Undefined,
               apiResponse |-> NoResponse, result |-> <<>>]

\* {}
EmptyObject == [own |-> NoProperties, proto |-> ObjectPrototype]

\* ------------------------------------------------------------------------
\* POST /resolve-market
\* ------------------------------------------------------------------------

\* Mutant: the middleware without its presence check `!providedApiKey`.
apiKeyMiddleware_NoPresenceCheck(providedApiKey) ==
    ~LooseNotEqual(providedApiKey, API_KEY)

\* apiKeyMiddleware calls next(): TRUE; answers 401: FALSE.
apiKeyMiddleware(providedApiKey) ==
    ~(Falsy(providedApiKey) \/ LooseNotEqual(providedApiKey, API_KEY))

\* The route handler after the middleware: status, the store it leaves, and
\* the `winner` it echoes.
resolveMarketHandler(marketAddress, winningOptionIndex) ==
    IF Falsy(marketAddress) \/ winningOptionIndex = Undefined
    THEN [status |-> 400, store |-> resolutionStore, winner |-> Undefined]
    ELSE IF marketAddress.type # "string"
    THEN \* marketAddress.toLowerCase is not a function: Express answers 500
         [status |-> 500, store |-> resolutionStore, winner |-> Undefined]
    ELSE [status |-> 200,
          store |-> PropertySet(resolutionStore, toLowerCase(marketAddress.s),
                                winningOptionIndex),
          winner |-> winningOptionIndex]

\* The route: the middleware, then the handler.
resolveMarket(apiKey, marketAddress, winningOptionIndex) ==
    IF ~apiKeyMiddleware(apiKey)
    THEN [status |-> 401, store |-> resolutionStore, winner |-> Undefined]
    ELSE resolveMarketHandler(marketAddress, winningOptionIndex)

\* A request body that is not JSON text.
MalformedBody == [parsed |-> FALSE, marketAddress |-> Undefined,
                  winningOptionIndex |-> Undefined]

\* The bodies express.json() parses into the given addresses and indexes.
ParsedBodies(addresses, indexes) ==
    {[parsed |-> TRUE, marketAddress |-> a, winningOptionIndex |-> i] :
        a \in addresses, i \in indexes}

\* Line 28, then the route: express.json() runs first and answers 400 to a
\* body that does not parse, before the middleware is called.
expressJson(apiKey, body) ==
    IF ~body.parsed
    THEN [status |-> 400, store |-> resolutionStore, winner |-> Undefined]
    ELSE resolveMarket(apiKey, body.marketAddress, body.winningOptionIndex)

\* One POST /resolve-market, its header and body drawn from the given sets,
\* or with a body that does not parse.
PostResolveMarketFrom(headers, addresses, indexes) ==
    \E apiKey \in headers,
       body \in ParsedBodies(addresses, indexes) \cup {MalformedBody} :
        LET out == expressJson(apiKey, body) IN
        /\ resolutionStore' = out.store
        /\ lastStored' =
              IF out.status = 200
              THEN LET key == toLowerCase(body.marketAddress.s) IN
                   [k \in (DOMAIN lastStored) \cup {key} |->
                        IF k = key THEN body.winningOptionIndex ELSE lastStored[k]]
              ELSE lastStored
        /\ req' = IF recording
                  THEN [route |-> "POST", apiKey |-> apiKey, parsed |-> body.parsed,
                        marketAddress |-> body.marketAddress,
                        winningOptionIndex |-> body.winningOptionIndex]
                  ELSE req
        /\ res' = IF recording
                  THEN [status |-> out.status, winningOptionIndex |-> out.winner]
                  ELSE res
        /\ UNCHANGED <<API_KEY, recording, oracle, metaVars>>

PostResolveMarket == PostResolveMarketFrom(ApiKeyHeaders, BodyAddresses, BodyIndexes)

\* ------------------------------------------------------------------------
\* GET /get-resolution/:marketAddress
\* ------------------------------------------------------------------------

\* Lines 219-230: the lookup under the lower-cased path segment.
getResolution(marketAddress) ==
    LET winningOptionIndex == PropertyGet(resolutionStore, toLowerCase(marketAddress)) IN
    IF winningOptionIndex = Undefined
    THEN [status |-> 404, winningOptionIndex |-> Undefined]
    ELSE [status |-> 200, winningOptionIndex |-> JSONValue(winningOptionIndex)]

GetResolution ==
    \E marketAddress \in PathAddresses :
        /\ recording
        /\ req' = [route |-> "GET", apiKey |-> Undefined, parsed |-> TRUE,
                   marketAddress |-> Str(marketAddress),
                   winningOptionIndex |-> Undefined]
        /\ res' = getResolution(marketAddress)
        /\ UNCHANGED <<API_KEY, resolutionStore, lastStored, recording, oracle, metaVars>>

\* ------------------------------------------------------------------------
\* The Chainlink Functions script (resolution-script.js)
\* ------------------------------------------------------------------------

\* n shifted right by k bytes.
RECURSIVE ShiftRightBytes(_, _)
ShiftRightBytes(n, k) ==
    IF k = 0 \/ n = 0 THEN n ELSE ShiftRightBytes(n \div 256, k - 1)

\* Functions.encodeUint256: the 32 bytes, big-endian, of a non-negative
\* integer; it throws on anything else (ok = FALSE).
encodeUint256(v) ==
    IF IsUint(v)
    THEN [ok |-> TRUE, bytes |-> [i \in 1..32 |-> ShiftRightBytes(v.n, 32 - i) % 256]]
    ELSE [ok |-> FALSE, bytes |-> <<>>]

\* Functions.makeHttpRequest sets `error` on a status outside 2xx and when no
\* response arrived (status 0).
HttpError(response) == response.status \notin 200..299

\* Lines 11-31: the argument check, then the GET is sent and the script
\* awaits its answer.
OracleStart ==
    \E arg \in OracleArgs :
        /\ oracle.pc \notin {"awaiting", "answered"}
        /\ oracle' =
              IF Falsy(arg)
              THEN [OracleIdle EXCEPT !.pc = "failed", !.arg = arg]
              ELSE [OracleIdle EXCEPT !.pc = "awaiting", !.arg = arg]
        /\ UNCHANGED <<API_KEY, resolutionStore, lastStored, recording, req, res, metaVars>>

\* The request in flight ends: the relay handles the GET (index.js lines
\* 219-230) and its answer reaches the script, or no answer arrives within
\* the timeout of line 30. `held` is the own record of the store at the
\* moment the relay handles the GET.
OracleAwait ==
    \E arrives \in BOOLEAN :
        /\ oracle.pc = "awaiting"
        /\ oracle' =
              IF arrives
              THEN [oracle EXCEPT
                      !.pc = "answered",
                      !.held = IF toLowerCase(oracle.arg.s) \in DOMAIN resolutionStore.own
                               THEN resolutionStore.own[toLowerCase(oracle.arg.s)]
                               ELSE Undefined,
                      !.apiResponse = getResolution(oracle.arg.s)]
              ELSE [oracle EXCEPT !.pc = "answered", !.apiResponse = NoResponse]
        /\ UNCHANGED <<API_KEY, resolutionStore, lastStored, recording, req, res, metaVars>>

\* The script's outcome once the GET has answered (lines 34-58).
oracleResult(apiResponse) ==
    IF HttpError(apiResponse) THEN [ok |-> FALSE, bytes |-> <<>>]
    ELSE IF apiResponse.winningOptionIndex = Undefined THEN [ok |-> FALSE, bytes |-> <<>>]
    ELSE encodeUint256(apiResponse.winningOptionIndex)

OracleFinish ==
    /\ oracle.pc = "answered"
    /\ LET out == oracleResult(oracle.apiResponse) IN
       oracle' = [oracle EXCEPT !.pc = IF out.ok THEN "returned" ELSE "failed",
                                !.result = out.bytes]
    /\ UNCHANGED <<API_KEY, resolutionStore, lastStored, recording, req, res, metaVars>>

\* ------------------------------------------------------------------------
\* The chain, as GET /metadata reads it
\* ------------------------------------------------------------------------

\* Option indexes of the market: a market with three options.
Options == 0..2

RECURSIVE SumOver(_, _)
SumOver(f, S) ==
    IF S = {} THEN 0
    ELSE LET x == CHOOSE y \in S : TRUE IN f[x] + SumOver(f, S \ {x})

\* The contract states a request may meet: any pooled stake per option; the
\* total pool is the sum of the pools, or 0 (a contract whose totalPool()
\* reads 0); the winning index is read only once the market is resolved.
Chains ==
    {[pools |-> p, totalPool |-> t, isResolved |-> r, winningOptionIndex |-> w,
      tokenOption |-> k] :
        p \in [Options -> 0..MaxStake], t \in 0..(Cardinality(Options) * MaxStake), r \in BOOLEAN,
        w \in Options, k \in Options}

ChainStates ==
    {c \in Chains : /\ c.totalPool \in {0, SumOver(c.pools, Options)}
                    /\ (~c.isResolved => c.winningOptionIndex = 0)}

\* ------------------------------------------------------------------------
\* GET /metadata/:marketAddress/:tokenId
\* ------------------------------------------------------------------------

imageUrls ==
    [initial |-> "ipfs://bafybeihnupuikrn6zwq7aozfmtw7eppqf4hhrasyo2lpari7arz27i6pqq",
     slight_advantage |-> "ipfs://bafybeihnupuikrn6zwq7aozfmtw7eppqf4hhrasyo2lpari7arz27i6pqq",
     huge_advantage |-> "ipfs://bafybeiecjtvd4xxlyjlr2uagy2ermnkfyfhgbdzhqrp4coflmwef33o6pm",
     win |-> "ipfs://bafybeigeswyw24exdy5r4hvx2zg3yvfprcazhja5aowqwlvejeviizoomm",
     slight_disadvantage |-> "ipfs://bafybeihyqd3sltgm72vcn2mbd2tcm64qqxtmnm232a5rujnonox7j4w77q",
     huge_disadvantage |-> "ipfs://bafybeifubqeukm7q5fd5wxulstptokvbrq3jmdho6em5rh6kk4vi6mod2y",
     loss |-> "ipfs://bafybeihiaeifcob2wsqc5tqg6ae3voc5wzfuhp7pf2ln56t3njibbjhgkq"]

\* The four reads of the Promise.all.
JointReads == {"options0", "options1", "totalPool", "isResolved"}

NoMetadata == [status |-> 0, image |-> "", odds |-> 0, result |-> ""]

\* The handler's locals before any read (-1: not read yet), the key of
\* imageUrls it has selected, the responses it has sent, and whether a
\* chain read of this request has thrown.
MetaIdle ==
    [pc |-> "idle", userOptionIndex |-> -1, pending |-> {}, option0 |-> -1,
     option1 |-> -1, totalPool |-> -1, isResolved |-> FALSE, winningIndex |-> -1,
     odds |-> 50, currentImage |-> "initial", resultValue |-> "Pending",
     sent |-> 0, readFailed |-> FALSE, response |-> NoMetadata]

\* Mutant: no neutral prior, the odds of an empty pool left at 0.
computeOdds_NoNeutralPrior(userOptionIndex, option0, option1, totalPool) ==
    IF totalPool > 0
    THEN LET userOptionPool == IF userOptionIndex = 0 THEN option0 ELSE option1 IN
         (userOptionPool * 100) \div totalPool
    ELSE 0

\* Lines 130-135: the odds, a Number.
computeOdds(userOptionIndex, option0, option1, totalPool) ==
    IF totalPool > 0
    THEN LET userOptionPool == IF userOptionIndex = 0 THEN option0 ELSE option1 IN
         (userOptionPool * 100) \div totalPool
    ELSE 50

\* Mutant: the thresholds taken inclusive.
selectTier_Inclusive(odds) ==
    IF odds >= 75 THEN "huge_advantage"
    ELSE IF odds >= 55 THEN "slight_advantage"
    ELSE IF odds <= 25 THEN "huge_disadvantage"
    ELSE IF odds <= 45 THEN "slight_disadvantage"
    ELSE "initial"

\* Lines 160-165: the key of imageUrls chosen for an unresolved market.
selectTier(odds) ==
    IF odds > 75 THEN "huge_advantage"
    ELSE IF odds > 55 THEN "slight_advantage"
    ELSE IF odds < 25 THEN "huge_disadvantage"
    ELSE IF odds < 45 THEN "slight_disadvantage"
    ELSE "initial"

\* Mutant: the outcome judged from option 0's point of view.
selectOutcome_Option0(winningIndex, userOptionIndex) ==
    IF winningIndex = 0
    THEN [currentImage |-> "win", resultValue |-> "Won"]
    ELSE [currentImage |-> "loss", resultValue |-> "Lost"]

\* Mutant: the outcome judged from the relay's stored record when there is one.
selectOutcome_FromStore(winningIndex, userOptionIndex) ==
    IF (IF Addr0xab \in DOMAIN resolutionStore.own
        THEN resolutionStore.own[Addr0xab].n
        ELSE winningIndex) = userOptionIndex
    THEN [currentImage |-> "win", resultValue |-> "Won"]
    ELSE [currentImage |-> "loss", resultValue |-> "Lost"]

\* Lines 152-159: the asset and the Result attribute of a resolved market.
selectOutcome(winningIndex, userOptionIndex) ==
    IF winningIndex = userOptionIndex
    THEN [currentImage |-> "win", resultValue |-> "Won"]
    ELSE [currentImage |-> "loss", resultValue |-> "Lost"]

\* odds.toFixed(2), in hundredths of a percent: odds is an integer Number
\* (50, or the quotient of a BigInt division), so both fractional digits
\* are 0.
toFixed2(odds) == odds * 100

\* Lines 167-177: the document sent with status 200.
metadataDocument(m) ==
    [status |-> 200, image |-> imageUrls[m.currentImage], odds |-> toFixed2(m.odds),
     result |-> m.resultValue]

\* res.json(metadata)
SendMetadata(m) ==
    [m EXCEPT !.pc = "done", !.sent = m.sent + 1, !.response = metadataDocument(m)]

\* Any status other than 200: a document with an error message only.
SendError(m, status) ==
    [m EXCEPT !.pc = "done", !.pending = {}, !.sent = m.sent + 1,
              !.response = [NoMetadata EXCEPT !.status = status]]

\* Mutant: a catch block that answers with whatever the handler has so far.
catchError_PartialMetadata(m) == SendMetadata([m EXCEPT !.pending = {}])

\* Lines 179-182: the catch block, the one generic failure response.
catchError(m) == SendError(m, 500)

\* Lines 103-113: the request arrives; ethers.isAddress decides 400.
MetadataRequest ==
    \E isAddress \in BOOLEAN :
        /\ meta.pc \in {"idle", "done"}
        /\ meta' = IF isAddress
                   THEN [MetaIdle EXCEPT !.pc = "positionNFT"]
                   ELSE SendError(MetaIdle, 400)
        /\ UNCHANGED <<relayVars, chain>>

\* Line 116: marketContract.positionNFT() answers or throws.
ReadPositionNFT ==
    \E ok \in BOOLEAN :
        /\ meta.pc = "positionNFT"
        /\ meta' = [(IF ok THEN [meta EXCEPT !.pc = "tokenOption"] ELSE catchError(meta))
                     EXCEPT !.readFailed = ~ok]
        /\ UNCHANGED <<relayVars, chain>>

\* Lines 120-128: nftContract.tokenOption(tokenId) answers or throws; on an
\* answer the four joint reads are issued.
ReadTokenOption ==
    \E ok \in BOOLEAN :
        /\ meta.pc = "tokenOption"
        /\ meta' = [(IF ok
                    THEN [meta EXCEPT !.pc = "reads",
                                      !.userOptionIndex = chain.tokenOption,
                                      !.pending = JointReads]
                    ELSE catchError(meta))
                     EXCEPT !.readFailed = ~ok]
        /\ UNCHANGED <<relayVars, chain>>

\* The locals once read r has answered.
Answered(m, r) ==
    LET got == CASE r = "options0" -> [m EXCEPT !.option0 = chain.pools[0]]
                 [] r = "options1" -> [m EXCEPT !.option1 = chain.pools[1]]
                 [] r = "totalPool" -> [m EXCEPT !.totalPool = chain.totalPool]
                 [] r = "isResolved" -> [m EXCEPT !.isResolved = chain.isResolved]
    IN [got EXCEPT !.pending = m.pending \ {r}]

\* Lines 130-165 up to the next await, run when the Promise.all resolves.
AfterJointReads(m) ==
    LET withOdds == [m EXCEPT !.odds = computeOdds(m.userOptionIndex, m.option0,
                                                   m.option1, m.totalPool)]
    IN IF withOdds.isResolved
       THEN [withOdds EXCEPT !.pc = "winningIndex"]
       ELSE SendMetadata([withOdds EXCEPT !.currentImage = selectTier(withOdds.odds)])

\* Lines 123-128: one of the joint reads answers or throws; the first throw
\* rejects the Promise.all, the last answer resolves it.
JointRead ==
    \E r \in meta.pending, ok \in BOOLEAN :
        /\ meta.pc = "reads"
        /\ meta' = [(IF ~ok THEN catchError(meta)
                    ELSE IF meta.pending = {r} THEN AfterJointReads(Answered(meta, r))
                    ELSE Answered(meta, r))
                     EXCEPT !.readFailed = ~ok]
        /\ UNCHANGED <<relayVars, chain>>

\* Lines 150-177: marketContract.winningOptionIndex() answers or throws.
ReadWinningIndex ==
    \E ok \in BOOLEAN :
        /\ meta.pc = "winningIndex"
        /\ meta' =
              [(IF ok
                THEN LET out == selectOutcome(chain.winningOptionIndex,
                                              meta.userOptionIndex) IN
                     SendMetadata([meta EXCEPT !.winningIndex = chain.winningOptionIndex,
                                               !.currentImage = out.currentImage,
                                               !.resultValue = out.resultValue])
                ELSE catchError(meta))
               EXCEPT !.readFailed = ~ok]
        /\ UNCHANGED <<relayVars, chain>>

\* ------------------------------------------------------------------------
\* Specifications
\* ------------------------------------------------------------------------

\* The process after start-up: an empty store, no request handled.
InitProcess ==
    /\ resolutionStore = EmptyObject
    /\ lastStored = NoProperties
    /\ req = NoRequest
    /\ res = NoResponse
    /\ oracle = OracleIdle
    /\ meta = MetaIdle

\* An unstaked, unresolved market.
QuietChain ==
    [pools |-> [o \in Options |-> 0], totalPool |-> 0, isResolved |-> FALSE,
     winningOptionIndex |-> 0, tokenOption |-> 0]

\* The relay and its clients.
InitRelay ==
    /\ InitProcess
    /\ API_KEY \in ApiKeyConfigs
    /\ recording = TRUE
    /\ chain = QuietChain

NextRelay == PostResolveMarket \/ GetResolution

SpecRelay == InitRelay /\ [][NextRelay]_vars

\* The relay, the resolver and the oracle script.
InitOracle ==
    /\ InitProcess
    /\ API_KEY \in ApiKeyConfigs
    /\ recording = FALSE
    /\ chain = QuietChain

NextOracle == PostResolveMarket \/ OracleStart \/ OracleAwait \/ OracleFinish

SpecOracle == InitOracle /\ [][NextOracle]_vars

\* The metadata endpoint against any contract state.
InitMetadata ==
    /\ InitProcess
    /\ API_KEY = Str(SecretChars)
    /\ recording = FALSE
    /\ chain \in ChainStates

NextMetadata ==
    \/ MetadataRequest
    \/ ReadPositionNFT
    \/ ReadTokenOption
    \/ JointRead
    \/ ReadWinningIndex

SpecMetadata == InitMetadata /\ [][NextMetadata]_vars

\* The relay and the metadata endpoint side by side: a resolver that sends
\* well-formed or empty bodies for one market, with or without the secret,
\* against staked markets in every resolution state.
BackendChains ==
    {c \in ChainStates : c.pools = [o \in Options |-> 1] /\ c.totalPool > 0}

InitBackend ==
    /\ InitProcess
    /\ API_KEY \in ApiKeyConfigs
    /\ recording = TRUE
    /\ chain \in BackendChains

PostFromResolver ==
    PostResolveMarketFrom({Undefined, Str(SecretChars)},
                          {Undefined, Str(Addr0xAb), Str(Addr0xab)},
                          {Undefined} \cup {Num(i) : i \in 0..MaxIndex})

NextBackend == PostFromResolver \/ GetResolution \/ NextMetadata

SpecBackend == InitBackend /\ [][NextBackend]_vars

\* A bettor stakes on an option of the open market: the option's pool and the
\* total pool grow together, in one transaction.
AddStake ==
    \E o \in Options :
        /\ ~chain.isResolved
        /\ chain.totalPool < MaxStake
        /\ chain' = [chain EXCEPT !.pools[o] = @ + 1, !.totalPool = @ + 1]
        /\ UNCHANGED <<relayVars, meta>>

\* The metadata endpoint against a market that takes stakes while a request
\* is in progress; the total pool is the sum of the pools at every instant.
LiveChains ==
    {c \in ChainStates : /\ c.totalPool = SumOver(c.pools, Options)
                         /\ c.totalPool <= MaxStake}

InitLiveChain ==
    /\ InitProcess
    /\ API_KEY = Str(SecretChars)
    /\ recording = FALSE
    /\ chain \in LiveChains

NextLiveChain == NextMetadata \/ AddStake

SpecLiveChain == InitLiveChain /\ [][NextLiveChain]_vars

\* The whole backend.
Init ==
    /\ InitProcess
    /\ API_KEY \in ApiKeyConfigs
    /\ recording \in BOOLEAN
    /\ chain \in ChainStates

Next == NextRelay \/ OracleStart \/ OracleAwait \/ OracleFinish \/ NextMetadata

Spec == Init /\ [][Next]_vars

\* ------------------------------------------------------------------------
\* Claims about the relay and the oracle script
\* ------------------------------------------------------------------------

\* A non-empty address string.
IsAddressString(v) == v.type = "string" /\ v.s # <<>>

\* The key of the last recorded request's address.
ReqKey == toLowerCase(req.marketAddress.s)

\* C1: a GET for address a answers 200 with exactly the index of the most
\* recent successful POST whose address equals a up to letter case, for every
\* valid index (0 included).
C1_FetchReturnsLastStored ==
    (/\ req.route = "GET"
     /\ ReqKey \in DOMAIN lastStored
     /\ IsUint(lastStored[ReqKey]))
    => /\ res.status = 200
       /\ res.winningOptionIndex = lastStored[ReqKey]

\* C2: a GET for any path segment under whose key no successful POST was made
\* answers 404, never 200.
C2_NeverStoredIsNotFound ==
    (req.route = "GET" /\ ReqKey \notin DOMAIN lastStored) => res.status = 404

\* C3: with a secret configured, a POST whose x-api-key is missing or differs
\* is answered 401 before any body validation and leaves the store unchanged,
\* whatever the body; a POST with the right header, an address and an index is
\* answered 200 and a following GET for that address returns the same index.
C3_AuthBeforeBodyThenRoundTrip ==
    API_KEY # Undefined =>
        /\ \A apiKey \in ApiKeyHeaders, a \in BodyAddresses, i \in BodyIndexes :
              (Falsy(apiKey) \/ apiKey # API_KEY) =>
                  /\ resolveMarket(apiKey, a, i).status = 401
                  /\ resolveMarket(apiKey, a, i).store = resolutionStore
        /\ (/\ req.route = "POST"
            /\ req.apiKey # API_KEY) => res.status = 401
        /\ (/\ req.route = "POST"
            /\ req.apiKey = API_KEY
            /\ IsAddressString(req.marketAddress)
            /\ req.winningOptionIndex # Undefined)
           => /\ res.status = 200
              /\ getResolution(req.marketAddress.s) =
                    [status |-> 200, winningOptionIndex |-> req.winningOptionIndex]

\* C4 as stated: with no secret configured, a POST with a valid body is
\* accepted (200 and stored) whatever its x-api-key header is.
C4_OpenWhenUnset ==
    (/\ API_KEY = Undefined
     /\ req.route = "POST"
     /\ IsAddressString(req.marketAddress)
     /\ IsUint(req.winningOptionIndex))
    => /\ res.status = 200
       /\ ReqKey \in DOMAIN lastStored

\* C4 amended: with no secret configured, no POST is accepted: with or
\* without a header, every POST whose body parses is answered 401 whatever
\* the body holds, one whose body does not parse 400, and the store stays
\* empty.
C4_ClosedWhenUnset ==
    API_KEY = Undefined =>
        /\ req.route = "POST" => res.status = IF req.parsed THEN 401 ELSE 400
        /\ resolutionStore = EmptyObject
        /\ lastStored = NoProperties

\* C4 witness: with no secret configured, a POST carrying a header and a
\* valid body has been answered 401.
C4_Witness ==
    /\ API_KEY = Undefined
    /\ req.route = "POST"
    /\ req.apiKey = Str(SecretChars)
    /\ IsAddressString(req.marketAddress)
    /\ IsUint(req.winningOptionIndex)
    /\ res.status = 401

\* C5: an authorized POST whose address is absent, empty or not a string, or
\* whose index is undefined, negative or not an integer, is answered 400 and
\* leaves the store unchanged: the store never holds anything but valid
\* indexes.
C5_InvalidInputRejected ==
    /\ (/\ req.route = "POST"
        /\ apiKeyMiddleware(req.apiKey)
        /\ (~IsAddressString(req.marketAddress) \/ ~IsUint(req.winningOptionIndex)))
       => res.status = 400
    /\ \A k \in DOMAIN resolutionStore.own : IsUint(resolutionStore.own[k])
    /\ resolutionStore.proto = ObjectPrototype

\* C6: the oracle script either fails or returns the encoding of exactly the
\* index the store held for its address at the moment of its GET; it fails
\* without an address argument, on an endpoint error (404 included) and on a
\* response without winningOptionIndex, so it returns nothing for a market no
\* authorized POST has recorded.
C6_OracleReturnsHeldIndex ==
    /\ oracle.pc = "returned" =>
          /\ IsAddressString(oracle.arg)
          /\ toLowerCase(oracle.arg.s) \in DOMAIN lastStored
          /\ IsUint(oracle.held)
          /\ oracle.result = encodeUint256(oracle.held).bytes
          /\ Len(oracle.result) = 32
          /\ oracle.result[32] = oracle.held.n % 256
    /\ (/\ oracle.pc \in {"returned", "failed"}
        /\ \/ Falsy(oracle.arg)
           \/ HttpError(oracle.apiResponse)
           \/ oracle.apiResponse.winningOptionIndex = Undefined)
       => oracle.pc = "failed"

\* ------------------------------------------------------------------------
\* Claims about the metadata endpoint
\* ------------------------------------------------------------------------

\* The pooled stake the handler took for the position's option.
UserOptionPool == IF meta.userOptionIndex = 0 THEN meta.option0 ELSE meta.option1

\* C7: for every option index k a position backs, the odds of a metadata
\* response are option k's own pooled stake over the total pooled stake.
C7_OddsFromOwnOption ==
    (meta.response.status = 200 /\ meta.totalPool > 0)
    => meta.odds = (chain.pools[meta.userOptionIndex] * 100) \div meta.totalPool

\* C8: for totalStake > 0 the percentage displayed is
\* (positionOptionStake * 100) / totalStake carried to two fractional digits
\* (truncated or rounded to the nearest hundredth), so 1 of 3 shows 33.33.
C8_TwoFractionalDigits ==
    (meta.response.status = 200 /\ meta.totalPool > 0)
    => LET shown == meta.response.odds
           exact == UserOptionPool * 10000
           total == meta.totalPool
       IN \/ shown * total <= exact /\ exact < (shown + 1) * total
          \/ (2 * shown - 1) * total <= 2 * exact /\ 2 * exact < (2 * shown + 1) * total

\* C9: the outcome state of a metadata response is Pending whenever the
\* market is unresolved; once resolved it is Won, with the win asset, exactly
\* when the chain's winning index equals the position's option index, and
\* Lost, with the loss asset, for every other index, whatever the odds.
C9_OutcomeState ==
    meta.response.status = 200 =>
        /\ ~chain.isResolved =>
              /\ meta.response.result = "Pending"
              /\ meta.response.image \notin {imageUrls.win, imageUrls.loss}
        /\ (chain.isResolved /\ chain.winningOptionIndex = chain.tokenOption) =>
              /\ meta.response.result = "Won"
              /\ meta.response.image = imageUrls.win
        /\ (chain.isResolved /\ chain.winningOptionIndex # chain.tokenOption) =>
              /\ meta.response.result = "Lost"
              /\ meta.response.image = imageUrls.loss

\* C9 witness: a position backing option 1 of a market option 1 won is shown
\* Won although its odds were under 25.
C9_Witness ==
    /\ meta.response.status = 200
    /\ meta.response.result = "Won"
    /\ chain.tokenOption = 1
    /\ meta.odds < 25

\* The first-match rules of the tier selection.
TierRules ==
    /\ meta.odds > 75 => meta.currentImage = "huge_advantage"
    /\ (55 < meta.odds /\ meta.odds <= 75) => meta.currentImage = "slight_advantage"
    /\ meta.odds < 25 => meta.currentImage = "huge_disadvantage"
    /\ (25 <= meta.odds /\ meta.odds < 45) => meta.currentImage = "slight_disadvantage"
    /\ (45 <= meta.odds /\ meta.odds <= 55) => meta.currentImage = "initial"
    /\ meta.response.odds = 100 * meta.odds
    /\ meta.response.image = imageUrls[meta.currentImage]

\* C10 as stated: for an unresolved market the tier follows the first-match
\* rules and the percentages 75, 25 and 45 to 55 map to initial.
C10_BoundariesInitial ==
    (meta.response.status = 200 /\ ~meta.isResolved) =>
        /\ TierRules
        /\ meta.odds \in {25, 75} \cup 45..55 => meta.currentImage = "initial"

\* C10 amended: for an unresolved market the tier follows the first-match
\* rules from the percentage shown, every percentage maps to exactly one tier,
\* 75 maps to slight_advantage, 25 to slight_disadvantage, and only the band
\* 45 to 55 inclusive maps to initial.
C10_TierFirstMatch ==
    (meta.response.status = 200 /\ ~meta.isResolved) =>
        /\ TierRules
        /\ meta.odds = 75 => meta.currentImage = "slight_advantage"
        /\ meta.odds = 25 => meta.currentImage = "slight_disadvantage"
        /\ meta.currentImage = "initial" <=> meta.odds \in 45..55

\* C10 witness: an unresolved market answered with a percentage of exactly 75
\* and the slight_advantage tier.
C10_Witness ==
    /\ meta.response.status = 200
    /\ ~meta.isResolved
    /\ meta.totalPool > 0
    /\ meta.odds = 75
    /\ meta.currentImage = "slight_advantage"

\* C11: when the total pooled stake read is 0 the percentage is 50.00,
\* whatever the option stakes, the position's option index, the resolved flag
\* and the winning index are; the quotient is never formed.
C11_NeutralPrior ==
    (meta.response.status = 200 /\ meta.totalPool = 0)
    => /\ meta.odds = 50
       /\ meta.response.odds = 5000

\* C11 witness: a resolved market whose total pool reads 0 while its option
\* pools do not, answered 50.00 for a position backing option 2.
C11_Witness ==
    /\ meta.response.status = 200
    /\ meta.totalPool = 0
    /\ meta.option0 > 0
    /\ meta.option1 > 0
    /\ meta.userOptionIndex = 2
    /\ meta.isResolved
    /\ meta.winningIndex = 1
    /\ meta.response.odds = 5000

\* C12: a metadata request is all-or-nothing. If any chain read it issued
\* threw, whatever the other reads returned, the response is the generic 500
\* with no metadata field; a 200 is sent only when every read issued has
\* answered; exactly one response is sent per request.
C12_AllOrNothing ==
    /\ meta.readFailed => meta.response = [NoMetadata EXCEPT !.status = 500]
    /\ meta.response.status = 200 =>
          /\ ~meta.readFailed
          /\ meta.pending = {}
          /\ meta.userOptionIndex # -1
          /\ meta.option0 # -1
          /\ meta.option1 # -1
          /\ meta.totalPool # -1
          /\ meta.isResolved => meta.winningIndex # -1
    /\ meta.sent = IF meta.pc = "done" THEN 1 ELSE 0

\* C12 witness: two of the joint reads had answered when a third threw, and
\* the request was answered with the bare 500.
C12_Witness ==
    /\ meta.readFailed
    /\ meta.option0 > 0
    /\ meta.isResolved
    /\ meta.totalPool = -1
    /\ meta.response.status = 500
    /\ meta.sent = 1

\* C13: the store changes only in the step of a POST answered 200: the
\* steps of GET /metadata and GET /get-resolution and every rejected POST
\* leave it unchanged; and a metadata response is decided by the contract
\* reads alone, its outcome by the chain's resolved flag and winning index,
\* whatever the store holds.
C13_StoreFrame ==
    /\ [][resolutionStore' # resolutionStore =>
              /\ req'.route = "POST"
              /\ res'.status = 200
              /\ meta' = meta]_vars
    /\ [](meta.response.status = 200 =>
              /\ meta.response.odds =
                    100 * computeOdds(chain.tokenOption, chain.pools[0],
                                      chain.pools[1], chain.totalPool)
              /\ ~chain.isResolved => meta.response.result = "Pending"
              /\ chain.isResolved =>
                    meta.response.result =
                        IF chain.winningOptionIndex = chain.tokenOption
                        THEN "Won" ELSE "Lost")

\* C13 witness: the store names the position's option as the winner, the last
\* POST was rejected, and the metadata response still says Lost, as the chain
\* does.
C13_Witness ==
    /\ Addr0xab \in DOMAIN resolutionStore.own
    /\ resolutionStore.own[Addr0xab] = Num(chain.tokenOption)
    /\ req.route = "POST"
    /\ res.status = 401
    /\ meta.response.status = 200
    /\ meta.response.result = "Lost"

\* C14: on a chain where each pool is at most the total pool at every
\* instant and stakes arrive between the reads of a request, every 200
\* metadata response shows odds between 0 and 100.
C14_OddsWithinRange ==
    /\ \A o \in Options : chain.pools[o] <= chain.totalPool
    /\ meta.response.status = 200 =>
          /\ meta.odds \in 0..100
          /\ meta.response.odds \in 0..10000

====
